---- MODULE Spec2Model ----
(***************************************************************************)
(* Model of the requirement/test validation core:                          *)
(*   core/validate.py       normalize, OPS, validate_row                   *)
(*   core/llm_providers.py  GroqProvider, have_llm, llm_chat               *)
(*   core/extract.py        _regex_req, extract_requirement_text_to_json,  *)
(*                          explain_from_facts, _regex_filters,            *)
(*                          parse_query_to_filters                         *)
(*   app/main.py            the "Extract requirements" button handler      *)
(*                                                                         *)
(* Conventions.                                                            *)
(*  - A Python value that may be None is an option: None == <<>>,          *)
(*    Some(v) == <<v>>.                                                    *)
(*  - A float is an exact rational <<num, den>> with den > 0.              *)
(*  - A str is a tuple of one-character strings.  The non-ASCII characters *)
(*    of the source are written "GE" (U+2265), "LE" (U+2264) and           *)
(*    "DEG" (U+00B0); each is ONE character of the text.                   *)
(***************************************************************************)
EXTENDS Integers, Sequences, FiniteSets, TLC

VARIABLES
    available,   \* GroqProvider.available, fixed at process start
    fn,          \* the function (or handler) that is invoked
    done,        \* it has returned, or raised
    req,         \* validate_row: the req argument
    test,        \* validate_row: the test argument
    res,         \* validate_row: the returned dict, or the raised exception
    text,        \* the str argument of the text functions (an option: may be None)
    llm,         \* what the backend answers to a chat of this invocation
    facts,       \* explain_from_facts: the facts argument
    ret,         \* what the text function returned
    exc,         \* the exception that left the text function, if any
    chatCalls,   \* the calls of _llm_chat made by this invocation
    csv,         \* requirements.csv as pd.read_csv reads it on every script run
    req_df,      \* the requirements table the page shows
    out,         \* st.session_state.out: the validation results, if any
    vf           \* the filtered view the page shows

vars == <<available, fn, done, req, test, res, text, llm, facts, ret, exc,
          chatCalls, csv, req_df, out, vf>>

----------------------------------------------------------------------------
(* Options and rationals *)

None == <<>>
Some(v) == <<v>>
IsSome(o) == o # <<>>
Get(o) == o[1]

\* Body(v), with v evaluated once
Once(v, Body(_)) == CHOOSE r \in {Body(x) : x \in {v}} : TRUE

Abs(n) == IF n < 0 THEN -n ELSE n

----------------------------------------------------------------------------
(* core/validate.py *)

\* 1 kN is 1000 N (the unit registry's definition of the kilo prefix).
KiloFactor == 1000

\* The tolerance of "=" is 1e-9, i.e. 1 / EqTolInv.
EqTolInv == 1000000000

\* The units the registry is asked about.  "furlongs_per_bogon" stands for
\* any string the registry cannot parse.
ForceUnits == {"kN", "N"}
KnownUnits == ForceUnits \cup {"mm"}

\* How many base units (N, or mm) one `u` is.
UnitFactor(u) == IF u = "kN" THEN KiloFactor ELSE 1

Dimension(u) == IF u \in ForceUnits THEN "force" ELSE "length"

\* normalize raises: an unparseable source unit, a target unit that is
\* null or unparseable, or a target of another dimension.
NormalizeRaises(from_unit, to_unit) ==
    \/ from_unit \notin KnownUnits
    \/ ~IsSome(to_unit)
    \/ Get(to_unit) \notin KnownUnits
    \/ Dimension(from_unit) # Dimension(Get(to_unit))

\* Mutant of Normalize: the factors of the two units exchanged.
Normalize_reversed(value, from_unit, to_unit) ==
    IF from_unit = Get(to_unit)
    THEN value
    ELSE <<value[1] * UnitFactor(Get(to_unit)), value[2] * UnitFactor(from_unit)>>

\* normalize(value, from_unit, to_unit), where it does not raise.
Normalize(value, from_unit, to_unit) ==
    IF from_unit = Get(to_unit)
    THEN value
    ELSE <<value[1] * UnitFactor(from_unit), value[2] * UnitFactor(Get(to_unit))>>

\* The keys of OPS.
OPS_KEYS == {">", "GE", ">=", "=", "LE", "<=", "<"}

\* OPS.get(comparator) is falsy: the key is absent (None included).
OpMissing(comparator) == ~IsSome(comparator) \/ Get(comparator) \notin OPS_KEYS

\* a - b has the sign of RatDiff(a, b): denominators are positive.
RatDiff(a, b) == a[1] * b[2] - b[1] * a[2]

\* abs(a - b) < 1e-9
WithinTol(a, b) ==
    LET d == Abs(RatDiff(a, b))
        q == a[2] * b[2]
    IN  \/ d = 0
        \/ (d <= q \div EqTolInv /\ d * EqTolInv < q)

\* OPS[c](a, b) for two numbers.
ApplyOp(c, a, b) ==
    CASE c = ">"            -> RatDiff(a, b) > 0
      [] c \in {"GE", ">="} -> RatDiff(a, b) >= 0
      [] c = "="            -> WithinTol(a, b)
      [] c \in {"LE", "<="} -> RatDiff(a, b) <= 0
      [] c = "<"            -> RatDiff(a, b) < 0

\* The dict validate_row returns; a key that is not in the dict is None here.
\* status "raised" is no dict: the exception `exc` left validate_row.
Result(status, reason, measured_norm, target, unit, raised) ==
    [status |-> status, reason |-> reason, measured_norm |-> measured_norm,
     target |-> target, unit |-> unit, exc |-> raised]

\* Mutant of validate_row: the comparator is looked up before the conversion.
validate_row_comparator_first(r, t) ==
    IF OpMissing(r.comparator)
    THEN Result("unknown", Some("invalid_comparator"), None, None, None, None)
    ELSE IF NormalizeRaises(t.unit, r.unit)
    THEN Result("unknown", Some("unit_conversion_failed"), None, None, None, None)
    ELSE LET mv == Normalize(t.measured_value, t.unit, r.unit) IN
         IF ~IsSome(r.value)
         THEN Result("raised", None, None, None, None, Some("TypeError"))
         ELSE Result(IF ApplyOp(Get(r.comparator), mv, Get(r.value))
                        THEN "pass" ELSE "fail",
                     None, Some(mv), r.value, r.unit, None)

validate_row(r, t) ==
    IF NormalizeRaises(t.unit, r.unit)
    THEN Result("unknown", Some("unit_conversion_failed"), None, None, None, None)
    ELSE LET mv == Normalize(t.measured_value, t.unit, r.unit) IN
         IF OpMissing(r.comparator)
         THEN Result("unknown", Some("invalid_comparator"), None, None, None, None)
         ELSE IF ~IsSome(r.value)
         \* op(mv, None): a float compared with, or subtracted from, None
         THEN Result("raised", None, None, None, None, Some("TypeError"))
         ELSE Result(IF ApplyOp(Get(r.comparator), mv, Get(r.value))
                        THEN "pass" ELSE "fail",
                     None, Some(mv), r.value, r.unit, None)

----------------------------------------------------------------------------
(* Python str and re, as far as core/extract.py uses them *)

Digits == {"0", "1", "2", "3", "4", "5", "6", "7", "8", "9"}
DigitSeq == <<"0", "1", "2", "3", "4", "5", "6", "7", "8", "9">>
Uppers == <<"A", "B", "C", "D", "E", "F", "G", "H", "I", "J", "K", "L", "M",
            "N", "O", "P", "Q", "R", "S", "T", "U", "V", "W", "X", "Y", "Z">>
Lowers == <<"a", "b", "c", "d", "e", "f", "g", "h", "i", "j", "k", "l", "m",
            "n", "o", "p", "q", "r", "s", "t", "u", "v", "w", "x", "y", "z">>
Letters == {Uppers[i] : i \in 1..26} \cup {Lowers[i] : i \in 1..26}

IsDigit(c) == c \in Digits
IsSpace(c) == c = " "
\* \w: a letter, a digit or the underscore
IsWordChar(c) == c \in Letters \/ c \in Digits \/ c = "_"

LowerChar(c) ==
    IF \E i \in 1..26 : Uppers[i] = c
    THEN Lowers[CHOOSE i \in 1..26 : Uppers[i] = c]
    ELSE c

\* s.lower(); also the text a re.I pattern written in lower case is matched on
Lower(s) == [i \in 1..Len(s) |-> LowerChar(s[i])]

AllSpace(s, from, to) == \A k \in from..to : IsSpace(s[k])

\* s.strip()
Strip(s) ==
    IF AllSpace(s, 1, Len(s))
    THEN <<>>
    ELSE LET a == CHOOSE i \in 1..Len(s) : ~IsSpace(s[i]) /\ AllSpace(s, 1, i - 1)
             b == CHOOSE j \in 1..Len(s) : ~IsSpace(s[j]) /\ AllSpace(s, j + 1, Len(s))
         IN  SubSeq(s, a, b)

\* the literal lit stands at index i of s
LitAt(s, i, lit) ==
    /\ i >= 1
    /\ i + Len(lit) - 1 <= Len(s)
    /\ \A j \in 1..Len(lit) : s[i + j - 1] = lit[j]

\* lit in s
Contains(s, lit) == \E i \in 1..(Len(s) - Len(lit) + 1) : LitAt(s, i, lit)

\* \b between s[p-1] and s[p], for p in 1..Len(s)+1
IsWordAt(s, k) == k >= 1 /\ k <= Len(s) /\ IsWordChar(s[k])
Boundary(s, p) == IsWordAt(s, p - 1) # IsWordAt(s, p)

\* re.search(r"\blit\b", s)
ContainsWord(s, lit) ==
    \E i \in 1..(Len(s) - Len(lit) + 1) :
        LitAt(s, i, lit) /\ Boundary(s, i) /\ Boundary(s, i + Len(lit))

\* The indices \s* (least == 0) or \s+ (least == 1) can stop at, from p.
AfterSpaces(s, p, least) ==
    {j \in (p + least)..(Len(s) + 1) : AllSpace(s, p, j - 1)}

\* re.search(r"a\s+b", s)
ContainsSpaced(s, a, b) ==
    \E i \in 1..Len(s) :
        /\ LitAt(s, i, a)
        /\ \E j \in AfterSpaces(s, i + Len(a), 1) : LitAt(s, j, b)

\* The indices \d+ can stop at, from p: after each digit of the run at p.
AfterDigits(s, p) ==
    {j \in (p + 1)..(Len(s) + 1) : \A k \in p..(j - 1) : IsDigit(s[k])}

\* The indices \d+(?:\.\d+)? can stop at, from p.
AfterNumber(s, p) ==
    AfterDigits(s, p) \cup
    UNION {AfterDigits(s, j + 1) : j \in {e \in AfterDigits(s, p) : LitAt(s, e, <<".">>)}}

DigitValue(c) == (CHOOSE i \in 1..10 : DigitSeq[i] = c) - 1

RECURSIVE IntOf(_)
IntOf(ds) ==
    IF ds = <<>> THEN 0
    ELSE 10 * IntOf(SubSeq(ds, 1, Len(ds) - 1)) + DigitValue(ds[Len(ds)])

RECURSIVE Pow10(_)
Pow10(n) == IF n = 0 THEN 1 ELSE 10 * Pow10(n - 1)

\* a rational without trailing decimal zeros: floats compare by value
RECURSIVE Reduce10(_)
Reduce10(q) ==
    IF q[2] > 1 /\ q[1] % 10 = 0 THEN Reduce10(<<q[1] \div 10, q[2] \div 10>>) ELSE q

\* float(ds) for ds matched by \d+(?:\.\d+)?
FloatOf(ds) ==
    IF \E i \in 1..Len(ds) : ds[i] = "."
    THEN LET dot == CHOOSE i \in 1..Len(ds) : ds[i] = "."
             frac == SubSeq(ds, dot + 1, Len(ds))
         IN  Reduce10(<<IntOf(SubSeq(ds, 1, dot - 1)) * Pow10(Len(frac)) + IntOf(frac),
                        Pow10(Len(frac))>>)
    ELSE <<IntOf(ds), 1>>

\* The least element of a non-empty set of indices.
Least(S) == CHOOSE i \in S : \A j \in S : i <= j
\* The greatest.
Greatest(S) == CHOOSE i \in S : \A j \in S : j <= i

----------------------------------------------------------------------------
(* core/extract.py: the pydantic schemas ReqJSON and ChatFilter *)

\* A keyword argument of a schema: null, a value v of the annotated type, or
\* a value the annotated type rejects.
JNull == <<"null">>
JOk(v) == <<"ok", v>>
JBad == <<"bad">>
Tag(j) == j[1]
ToJson(o) == IF IsSome(o) THEN JOk(Get(o)) ELSE JNull

ReqFields == {"metric", "comparator", "value", "unit", "component", "condition"}

\* ReqJSON(**kwargs) raises ValidationError.  The six fields are annotated
\* Optional[...] and have no default: each may be None, none may be left out.
ReqJSONRaises(kwargs) ==
    \E k \in ReqFields : k \notin DOMAIN kwargs \/ Tag(kwargs[k]) = "bad"

\* ReqJSON(**kwargs), where it does not raise; keys that are no field are
\* ignored.
ReqJSON(kwargs) ==
    Once(kwargs, LAMBDA kw :
        [k \in ReqFields |-> IF Tag(kw[k]) = "null" THEN None ELSE Some(kw[k][2])])

\* obj.model_dump(exclude_none=...)
ModelDump(obj, exclude_none) ==
    IF exclude_none
    THEN Once(obj, LAMBDA o : [k \in {x \in DOMAIN o : IsSome(o[x])} |-> o[k]])
    ELSE obj

FilterKeys == {"component", "metric", "status", "min_value", "unit"}

\* ChatFilter(**kwargs) raises ValidationError; every field defaults to None.
ChatFilterRaises(kwargs) ==
    \E k \in FilterKeys \cap DOMAIN kwargs : Tag(kwargs[k]) = "bad"

\* ChatFilter(**kwargs), where it does not raise
ChatFilter(kwargs) ==
    Once(kwargs, LAMBDA kw :
        [k \in FilterKeys |->
            IF k \in DOMAIN kw /\ Tag(kw[k]) = "ok" THEN Some(kw[k][2]) ELSE None])

----------------------------------------------------------------------------
(* core/extract.py: _alias_metric and _regex_req *)

\* METRIC_ALIASES, in the dict's order: <<surface form, canonical name>>
METRIC_ALIASES ==
    << << <<"s","h","e","a","r">>,
          <<"s","h","e","a","r","_","s","t","r","e","n","g","t","h">> >>,
       << <<"s","h","e","a","r","_","s","t","r","e","n","g","t","h">>,
          <<"s","h","e","a","r","_","s","t","r","e","n","g","t","h">> >>,
       << <<"g","a","p">>, <<"g","a","p">> >>,
       << <<"r","i","g","i","d","i","t","y">>, <<"r","i","g","i","d","i","t","y">> >> >>

\* The for loop of _alias_metric from entry k on.
RECURSIVE AliasFrom(_, _)
AliasFrom(l, k) ==
    IF k > Len(METRIC_ALIASES) THEN None
    ELSE IF ContainsWord(l, METRIC_ALIASES[k][1]) THEN Some(METRIC_ALIASES[k][2])
    ELSE AliasFrom(l, k + 1)

_alias_metric(txt) == AliasFrom(Lower(txt), 1)

\* The component hints of _regex_req, in list order.
REQ_COMPONENTS ==
    << <<"d","o","o","r","_","f","r","a","m","e">>,
       <<"p","a","n","e","l">>,
       <<"b","_","p","i","l","l","a","r">>,
       <<"r","o","o","f">>,
       <<"h","o","o","d">>,
       <<"d","o","o","r">> >>

\* (kN|N|mm)\b at index p of the lowered text: the index after the unit
UnitWordEnds(l, p) ==
    {p + Len(u) : u \in {w \in { <<"k","n">>, <<"n">>, <<"m","m">> } :
                            LitAt(l, p, w) /\ Boundary(l, p + Len(w))}}

\* The matches of (\d+(?:\.\d+)?)\s*(kN|N|mm)\b that start at i:
\* <<end of the number, start of the unit, end of the unit>>
NumUnitWordAt(l, i) ==
    UNION {UNION {{<<e, p, q>> : q \in UnitWordEnds(l, p)} :
                  p \in AfterSpaces(l, e, 0)} :
           e \in AfterNumber(l, i)}

\* re.search(r"(\d+(?:\.\d+)?)\s*(kN|N|mm)\b", text, re.I): the leftmost match,
\* as <<float(group 1), group 2>>; the unit is the text as written.
ReqValueUnit(txt) ==
    LET l == Lower(txt)
        starts == {i \in 1..Len(l) : NumUnitWordAt(l, i) # {}}
    IN  IF starts = {} THEN <<None, None>>
        ELSE LET i == Least(starts)
                 m == CHOOSE x \in NumUnitWordAt(l, i) : TRUE
             IN  <<Some(FloatOf(SubSeq(txt, i, m[1] - 1))),
                   Some(SubSeq(txt, m[2], m[3] - 1))>>

\* The five comparator rules of _regex_req, each a re.search(..., re.I).
CompRule1(l) ==
    \/ Contains(l, <<"GE">>)
    \/ Contains(l, <<">","=">>)
    \/ ContainsSpaced(l, <<"a","t">>, <<"l","e","a","s","t">>)
    \/ Contains(l, <<"m","i","n","i","m","u","m">>)
    \/ Contains(l, <<"m","i","n">>)

CompRule2(l) ==
    \/ Contains(l, <<"LE">>)
    \/ Contains(l, <<"<","=">>)
    \/ ContainsSpaced(l, <<"n","o","t">>, <<"e","x","c","e","e","d">>)
    \/ Contains(l, <<"m","a","x","i","m","u","m">>)
    \/ Contains(l, <<"m","a","x">>)

\* ^=\b : "=" first, then a word character
LeadingEq(l) == LitAt(l, 1, <<"=">>) /\ Boundary(l, 2)

CompRule3(l) ==
    \/ ContainsWord(l, <<"e","q","u","a","l">>)
    \/ ContainsWord(l, <<"e","q","u","a","l","s">>)
    \/ LeadingEq(l)

CompRule4(l) == ContainsWord(l, <<"m","o","r","e"," ","t","h","a","n">>) \/ Contains(l, <<">">>)

CompRule5(l) == ContainsWord(l, <<"l","e","s","s"," ","t","h","a","n">>) \/ Contains(l, <<"<">>)

\* comp of _regex_req: the if / elif chain
ReqComparator(txt) ==
    LET l == Lower(txt) IN
    IF CompRule1(l) THEN Some("GE")
    ELSE IF CompRule2(l) THEN Some("LE")
    ELSE IF CompRule3(l) THEN Some("=")
    ELSE IF CompRule4(l) THEN Some(">")
    ELSE IF CompRule5(l) THEN Some("<")
    ELSE None

\* compo of _regex_req: the first component of the list found as a word
RECURSIVE FirstWord(_, _, _)
FirstWord(l, list, k) ==
    IF k > Len(list) THEN None
    ELSE IF ContainsWord(l, list[k]) THEN Some(list[k])
    ELSE FirstWord(l, list, k + 1)

ReqComponent(txt) == FirstWord(Lower(txt), REQ_COMPONENTS, 1)

\* The matches of -?\d+\s*DEG\s*C (case-sensitive) that start at i: the index
\* after the C.
TemperatureAt(t, i) ==
    LET d == IF LitAt(t, i, <<"-">>) THEN i + 1 ELSE i IN
    UNION {UNION {{c + 1 : c \in {x \in AfterSpaces(t, g + 1, 0) : LitAt(t, x, <<"C">>)}} :
                  g \in {y \in AfterSpaces(t, e, 0) : LitAt(t, y, <<"DEG">>)}} :
           e \in AfterDigits(t, d)}

\* cond of _regex_req: the temperature as written, overridden by "ambient"
ReqCondition(txt) ==
    LET l == Lower(txt)
        starts == {i \in 1..Len(txt) : TemperatureAt(txt, i) # {}}
    IN  IF Contains(l, <<"a","m","b","i","e","n","t">>) \/ Contains(l, <<"r","o","o","m"," ","t","e","m","p","e","r","a","t","u","r","e">>)
        THEN Some(<<"a","m","b","i","e","n","t">>)
        ELSE IF starts = {} THEN None
        ELSE LET i == Least(starts) IN
             Some(SubSeq(txt, i, Greatest(TemperatureAt(txt, i)) - 1))

_regex_req(txt) ==
    Once(ReqValueUnit(txt), LAMBDA vu :
        ModelDump(ReqJSON([metric |-> ToJson(_alias_metric(txt)),
                           comparator |-> ToJson(ReqComparator(txt)),
                           value |-> ToJson(vu[1]),
                           unit |-> ToJson(vu[2]),
                           component |-> ToJson(ReqComponent(txt)),
                           condition |-> ToJson(ReqCondition(txt))]),
                  FALSE))

----------------------------------------------------------------------------
(* core/extract.py: _regex_filters *)

\* s.replace(lit, "")
RECURSIVE RemoveAll(_, _)
RemoveAll(s, lit) ==
    IF Len(s) < Len(lit) THEN s
    ELSE IF LitAt(s, 1, lit) THEN RemoveAll(SubSeq(s, Len(lit) + 1, Len(s)), lit)
    ELSE <<s[1]>> \o RemoveAll(Tail(s), lit)

\* The status words, in the order of the if / elif chain: <<word, status>>
STATUS_WORDS ==
    << << <<"f","a","i","l","e","d">>, "fail" >>,
       << <<"f","a","i","l">>, "fail" >>,
       << <<"p","a","s","s","e","d">>, "pass" >>,
       << <<"p","a","s","s">>, "pass" >> >>

\* The index of the first status word in ql, 0 if there is none.
StatusIndex(ql) ==
    LET hits == {k \in 1..Len(STATUS_WORDS) : Contains(ql, STATUS_WORDS[k][1])}
    IN  IF hits = {} THEN 0 ELSE Least(hits)

FilterStatus(ql) ==
    IF StatusIndex(ql) = 0 THEN None ELSE Some(STATUS_WORDS[StatusIndex(ql)][2])

\* status_processed_query
StatusProcessed(ql) ==
    IF StatusIndex(ql) = 0 THEN ql ELSE RemoveAll(ql, STATUS_WORDS[StatusIndex(ql)][1])

\* The component vocabulary of _regex_filters, in list order.
FILTER_COMPONENTS ==
    << <<"d","o","o","r","_","f","r","a","m","e">>, <<"p","a","n","e","l">>, <<"b","_","p","i","l","l","a","r">>, <<"r","o","o","f">>, <<"h","o","o","d">>, <<"d","o","o","r">>, <<"b","u","m","p","e","r">>,
       <<"t","r","u","n","k">>, <<"f","e","n","d","e","r">>, <<"w","i","n","d","s","h","i","e","l","d">>, <<"q","u","a","r","t","e","r","_","p","a","n","e","l">>, <<"s","p","o","i","l","e","r">>, <<"m","i","r","r","o","r">>,
       <<"g","r","i","l","l","e">>, <<"t","a","i","l","g","a","t","e">>, <<"h","e","a","d","l","i","g","h","t">>, <<"a","n","t","e","n","n","a">>, <<"w","h","e","e","l","_","w","e","l","l">>,
       <<"f","u","e","l","_","d","o","o","r">>, <<"l","i","c","e","n","s","e","_","p","l","a","t","e">>, <<"e","x","h","a","u","s","t">>, <<"s","i","d","e","_","s","k","i","r","t">>, <<"s","u","n","r","o","o","f">>,
       <<"d","a","s","h","b","o","a","r","d">>, <<"c","o","n","s","o","l","e">>, <<"s","e","a","t">>, <<"a","i","r","b","a","g">>, <<"s","t","e","e","r","i","n","g">>, <<"p","e","d","a","l">>,
       <<"a","r","m","r","e","s","t">>, <<"c","u","p","h","o","l","d","e","r">>, <<"v","i","s","o","r">>, <<"h","a","n","d","l","e">>, <<"v","e","n","t">>, <<"t","r","i","m">> >>

\* The first entry of list, from index k on, that s contains.
RECURSIVE FirstContained(_, _, _)
FirstContained(s, list, k) ==
    IF k > Len(list) THEN None
    ELSE IF Contains(s, list[k]) THEN Some(list[k])
    ELSE FirstContained(s, list, k + 1)

\* for m in METRIC_ALIASES: if m in ql
RECURSIVE FilterMetricFrom(_, _)
FilterMetricFrom(ql, k) ==
    IF k > Len(METRIC_ALIASES) THEN None
    ELSE IF Contains(ql, METRIC_ALIASES[k][1]) THEN Some(METRIC_ALIASES[k][2])
    ELSE FilterMetricFrom(ql, k + 1)

\* Pattern items: a choice of literals, \s* or \s+, the group (kn|n|mm), \b.
Alt(lits) == [t |-> "alt", lits |-> lits]
Sp(least) == [t |-> "sp", least |-> least]
UnitGroup == [t |-> "unit"]
WordB == [t |-> "b"]

UNIT_TOKENS == { <<"k","n">>, <<"n">>, <<"m","m">> }

UnitOrUnits == Alt({ <<"u","n","i","t">>, <<"u","n","i","t","s">> })

\* unit_patterns, in list order; an entry is the set of its expansions (the
\* optional group of the last pattern is written out).
UNIT_PATTERNS ==
    << { <<UnitOrUnits, Sp(1),
           Alt({ <<"h","a","v","i","n","g">>, <<"w","i","t","h">>, <<"o","f">>, <<"i","n">>, <<"i","s">>, <<"a","r","e">> }), Sp(0), UnitGroup>> },
       { <<Alt({ <<"h","a","v","i","n","g">>, <<"w","i","t","h">> }), Sp(1), Alt({ <<"u","n","i","t">> }), Sp(1), UnitGroup>> },
       { <<Alt({ <<"i","n">>, <<"w","i","t","h">> }), Sp(1), UnitGroup, Sp(1), UnitOrUnits>> },
       { <<WordB, UnitGroup, Sp(1), UnitOrUnits>> },
       { <<UnitOrUnits, Sp(1),
           Alt({ <<"=">>, <<"e","q","u","a","l">>, <<"e","q","u","a","l","s">>, <<"i","s">> }), Sp(0), UnitGroup>> },
       { <<Alt({ <<"u","n","i","t">> }), Sp(1), Alt({ <<"h","a","v","i","n","g">> }), Sp(1), UnitGroup>> },
       { <<Alt({ <<"w","i","t","h">> }), Sp(1), Alt({ <<"u","n","i","t">> }), Sp(1),
           Alt({ <<"h","a","v","i","n","g">> }), Sp(1), UnitGroup>>,
         <<Alt({ <<"w","i","t","h">> }), Sp(1), Alt({ <<"h","a","v","i","n","g">> }), Sp(1), UnitGroup>> } >>

\* The groups captured by the matches of items k.. of pat at index p of s,
\* cap being the group captured so far.
RECURSIVE Captures(_, _, _, _, _)
Captures(s, pat, k, p, cap) ==
    IF k > Len(pat) THEN {cap}
    ELSE LET it == pat[k] IN
         CASE it.t = "alt" ->
                UNION {Captures(s, pat, k + 1, p + Len(w), cap) :
                       w \in {x \in it.lits : LitAt(s, p, x)}}
           [] it.t = "sp" ->
                UNION {Captures(s, pat, k + 1, j, cap) :
                       j \in AfterSpaces(s, p, it.least)}
           [] it.t = "unit" ->
                UNION {Captures(s, pat, k + 1, p + Len(w), w) :
                       w \in {x \in UNIT_TOKENS : LitAt(s, p, x)}}
           [] it.t = "b" ->
                IF Boundary(s, p) THEN Captures(s, pat, k + 1, p, cap) ELSE {}

\* The groups of the matches of unit pattern n that start at index i.
UnitPatternAt(s, n, i) ==
    UNION {Captures(s, pat, 1, i, <<>>) : pat \in UNIT_PATTERNS[n]}

\* re.search(unit_patterns[n], ql): group 1 of the leftmost match, or None
UnitPatternSearch(s, n) ==
    LET starts == {i \in 1..Len(s) : UnitPatternAt(s, n, i) # {}}
    IN  IF starts = {} THEN None
        ELSE Some(CHOOSE u \in UnitPatternAt(s, n, Least(starts)) : TRUE)

\* "kn" -> "kN", "n" -> "N", "mm" -> "mm"
CanonicalUnit(u) ==
    IF u = <<"k","n">> THEN "kN" ELSE IF u = <<"n">> THEN "N" ELSE "mm"

\* The loop over unit_patterns: the unit of the first pattern that matches.
FilterUnitOnly(ql) ==
    LET hits == {n \in 1..Len(UNIT_PATTERNS) : IsSome(UnitPatternSearch(ql, n))}
    IN  IF hits = {} THEN None
        ELSE Some(CanonicalUnit(Get(UnitPatternSearch(ql, Least(hits)))))

\* The matches of (\d+(?:\.\d+)?)\s*(kn|n|mm) that start at i:
\* <<end of the number, the unit>>
NumUnitAt(s, i) ==
    UNION {UNION {{<<e, w>> : w \in {x \in UNIT_TOKENS : LitAt(s, p, x)}} :
                  p \in AfterSpaces(s, e, 0)} :
           e \in AfterNumber(s, i)}

\* re.search(r"(\d+(?:\.\d+)?)\s*(kn|n|mm)", ql): <<min_value, unit>> or None
FilterNumUnit(ql) ==
    LET starts == {i \in 1..Len(ql) : NumUnitAt(ql, i) # {}}
    IN  IF starts = {} THEN None
        ELSE LET i == Least(starts)
                 m == CHOOSE x \in NumUnitAt(ql, i) : TRUE
             IN  Some(<<FloatOf(SubSeq(ql, i, m[1] - 1)), CanonicalUnit(m[2])>>)

\* The cues a threshold follows, and the cues that follow a threshold.
CUES_BEFORE == { <<"g","r","e","a","t","e","r"," ","t","h","a","n">>, <<"m","o","r","e"," ","t","h","a","n">>, <<"a","b","o","v","e">>, <<">">>, <<"GE">> }
CUES_AFTER == { <<"o","r"," ","m","o","r","e">>, <<"o","r"," ","g","r","e","a","t","e","r">>, <<"p","l","u","s">> }

\* (?:cue)\s*(\d+(?:\.\d+)?) from index i: the <<start, end>> of the number,
\* which is greedy
NumberAfterAt(s, i, cues) ==
    UNION {{<<p, Greatest(AfterNumber(s, p))>> :
            p \in {j \in AfterSpaces(s, i + Len(w), 0) : AfterNumber(s, j) # {}}} :
           w \in {x \in cues : LitAt(s, i, x)}}

\* (\d+(?:\.\d+)?)\s*(?:cue) from index i: the <<start, end>> of the number
NumberBeforeAt(s, i) ==
    {<<i, e>> : e \in {x \in AfterNumber(s, i) :
                         \E p \in AfterSpaces(s, x, 0) :
                             \E w \in CUES_AFTER : LitAt(s, p, w)}}

\* measured_norm\s*[>GE]\s*(\d+(?:\.\d+)?) from index i
NumberAfterNormAt(s, i) ==
    IF LitAt(s, i, <<"m","e","a","s","u","r","e","d","_","n","o","r","m">>)
    THEN UNION {NumberAfterAt(s, j, { <<">">>, <<"GE">> }) :
                j \in AfterSpaces(s, i + Len(<<"m","e","a","s","u","r","e","d","_","n","o","r","m">>), 0)}
    ELSE {}

\* The <<start, end>> of group 1 for threshold pattern n at index i.
ThresholdAt(s, n, i) ==
    CASE n = 1 -> NumberAfterAt(s, i, CUES_BEFORE)
      [] n = 2 -> NumberBeforeAt(s, i)
      [] n = 3 -> NumberAfterNormAt(s, i)

\* re.search(patterns[n], ql): float(group 1) of the leftmost match, or None
ThresholdSearch(s, n) ==
    LET starts == {i \in 1..Len(s) : ThresholdAt(s, n, i) # {}}
    IN  IF starts = {} THEN None
        ELSE LET m == CHOOSE x \in ThresholdAt(s, n, Least(starts)) : TRUE
             IN  Some(FloatOf(SubSeq(s, m[1], m[2] - 1)))

\* The loop over the threshold patterns: the first that matches.
FilterThreshold(ql) ==
    LET hits == {n \in 1..3 : IsSome(ThresholdSearch(ql, n))}
    IN  IF hits = {} THEN None ELSE ThresholdSearch(ql, Least(hits))

\* The unit inferred beside a threshold-only cue: the if / elif chain.
InferUnit(ql) ==
    IF Contains(ql, <<"k","n">>) \/ Contains(ql, <<"k","i","l","o">>) THEN Some("kN")
    ELSE IF Contains(ql, <<"n">>) /\ ~Contains(ql, <<"m","m">>) THEN Some("N")
    ELSE IF Contains(ql, <<"m","m">>) THEN Some("mm")
    ELSE None

\* min_value and unit of _regex_filters, as <<min_value, unit>>
FilterValueUnit(ql) ==
    Once(FilterUnitOnly(ql), LAMBDA unit :
        IF IsSome(unit) THEN <<None, unit>>
        ELSE Once(FilterNumUnit(ql), LAMBDA m :
            IF IsSome(m) THEN <<Some(Get(m)[1]), Some(Get(m)[2])>>
            ELSE Once(FilterThreshold(ql), LAMBDA min_value :
                IF IsSome(min_value) THEN <<min_value, InferUnit(ql)>>
                ELSE <<None, None>>)))

\* The dict d of _regex_filters: a key is set only where the code assigns it.
FilterDict(component, metric, status, vu) ==
    Once([component |-> component, metric |-> metric, status |-> status,
          min_value |-> vu[1], unit |-> vu[2]],
         LAMBDA all : [k \in {x \in FilterKeys : IsSome(all[x])} |-> JOk(Get(all[k]))])

RegexFiltersLowered(ql) ==
    ModelDump(ChatFilter(FilterDict(FirstContained(StatusProcessed(ql), FILTER_COMPONENTS, 1),
                                    FilterMetricFrom(ql, 1),
                                    FilterStatus(ql),
                                    FilterValueUnit(ql))),
              FALSE)

_regex_filters(q) == Once(Lower(q), LAMBDA ql : RegexFiltersLowered(ql))

----------------------------------------------------------------------------
(* core/llm_providers.py, and the three functions of core/extract.py that *)
(* use the backend                                                        *)

\* have_llm(): the provider's flag, set once from GROQ_API_KEY
have_llm == available

\* What one chat of the backend gives (the network and the model decide):
\*   kind "raise"  chat_completion raises ("Groq API error: ...")
\*   kind "none"   the message content is None
\*   kind "text"   a str in which re.search(r'\{.*\}') and json.loads find no
\*                 JSON value with .items() / usable as **kwargs
\*   kind "json"   a str whose {...} part json.loads turns into the dict `data`
Answer(kind, data) == [kind |-> kind, data |-> data]
NoAnswer == Answer("raise", <<>>)

\* clean_data = {k: v for k, v in data.items() if v is not None}
CleanData(data) ==
    Once(data, LAMBDA d : [k \in {x \in DOMAIN d : Tag(d[x]) # "null"} |-> d[k]])

\* What a text function did: its return value, or the exception that left
\* it, and how often it called _llm_chat.
Outcome(r, e, calls) == [ret |-> r, exc |-> e, calls |-> calls]
Nothing == <<>>

\* The try block of extract_requirement_text_to_json raises.
ExtractTryRaises(l) ==
    \/ l.kind # "json"
    \/ ReqJSONRaises(CleanData(l.data))

\* Mutant of extract_requirement_text_to_json: a failed chat is tried again
\* before the fallback.
extract_with_retry(t, l) ==
    Once(Strip(IF IsSome(t) THEN Get(t) ELSE <<>>), LAMBDA s :
        IF s = <<>>
        THEN IF ReqJSONRaises(<<>>)
             THEN Outcome(Nothing, Some("ValidationError"), 0)
             ELSE Outcome(ModelDump(ReqJSON(<<>>), FALSE), None, 0)
        ELSE IF have_llm /\ ~ExtractTryRaises(l)
        THEN Outcome(ModelDump(ReqJSON(CleanData(l.data)), TRUE), None, 1)
        ELSE Outcome(_regex_req(s), None, IF have_llm THEN 2 ELSE 0))

\* Mutant of extract_requirement_text_to_json: no try / except around the
\* backend path.
extract_without_except(t, l) ==
    Once(Strip(IF IsSome(t) THEN Get(t) ELSE <<>>), LAMBDA s :
        IF s = <<>>
        THEN IF ReqJSONRaises(<<>>)
             THEN Outcome(Nothing, Some("ValidationError"), 0)
             ELSE Outcome(ModelDump(ReqJSON(<<>>), FALSE), None, 0)
        ELSE IF have_llm /\ ~ExtractTryRaises(l)
        THEN Outcome(ModelDump(ReqJSON(CleanData(l.data)), TRUE), None, 1)
        ELSE IF have_llm
        THEN Outcome(Nothing, Some("Exception"), 1)
        ELSE Outcome(_regex_req(s), None, 0))

\* extract_requirement_text_to_json(t), the backend answering l if asked
extract_requirement_text_to_json(t, l) ==
    Once(Strip(IF IsSome(t) THEN Get(t) ELSE <<>>), LAMBDA s :
        IF s = <<>>
        \* return ReqJSON().model_dump()
        THEN IF ReqJSONRaises(<<>>)
             THEN Outcome(Nothing, Some("ValidationError"), 0)
             ELSE Outcome(ModelDump(ReqJSON(<<>>), FALSE), None, 0)
        ELSE IF have_llm /\ ~ExtractTryRaises(l)
        THEN Outcome(ModelDump(ReqJSON(CleanData(l.data)), TRUE), None, 1)
        \* no backend, or the except clause: fall through to the regex
        ELSE Outcome(_regex_req(s), None, IF have_llm THEN 1 ELSE 0))

\* The explanation strings.  The number formatting (:.3g) is not modelled: a
\* template is its name and its arguments.
Explanation(form, measured, unit, target) ==
    [form |-> form, measured |-> measured, unit |-> unit, target |-> target]

\* explain_from_facts(f), the backend answering l if asked
explain_from_facts(f, l) ==
    IF ~have_llm
    THEN IF f.status \in {"pass", "fail"}
         \* format(None, ".3g") raises TypeError
         THEN IF ~IsSome(f.measured_norm)
              THEN Outcome(Nothing, Some("TypeError"), 0)
              ELSE Outcome(Explanation(f.status, f.measured_norm, f.unit, f.target),
                           None, 0)
         ELSE Outcome(Explanation("unknown", None, None, None), None, 0)
    ELSE IF l.kind \in {"raise", "none"}
    THEN Outcome(Explanation("unavailable", None, None, None), None, 1)
    ELSE Outcome(Explanation("backend", None, None, None), None, 1)

\* The try block of parse_query_to_filters raises.
ParseTryRaises(l) ==
    \/ l.kind # "json"
    \/ ChatFilterRaises(l.data)

\* parse_query_to_filters(q), the backend answering l if asked
parse_query_to_filters(q, l) ==
    IF have_llm /\ ~ParseTryRaises(l)
    THEN Outcome(ModelDump(ChatFilter(l.data), FALSE), None, 1)
    ELSE Outcome(_regex_filters(IF IsSome(q) THEN Get(q) ELSE <<>>), None,
                 IF have_llm THEN 1 ELSE 0)

----------------------------------------------------------------------------
(* app/main.py: the requirements table and the "Extract requirements from *)
(* free_text" button                                                      *)

\* A DataFrame is its columns and its rows; a row maps each column to a
\* cell, an option: None is NaN (pd.isna), a missing or empty CSV cell.
Table(columns, rows) == [columns |-> columns, rows |-> rows]
NoTable == Table({}, <<>>)

\* str(r.get("free_text", "")): the cell as a str; str(NaN) is "nan"
CellText(r) ==
    IF "free_text" \notin DOMAIN r THEN <<>>
    ELSE IF IsSome(r["free_text"]) THEN Get(r["free_text"])
    ELSE <<"n","a","n">>

\* Mutant of FillRow: every field is written, missing or not.
FillRow_overwrite(r, d, columns) ==
    [k \in DOMAIN r |->
        IF k \in ReqFields /\ k \in columns
        THEN IF k \in DOMAIN d THEN d[k] ELSE r[k]
        ELSE r[k]]

\* The inner for loop: for the six fields k, if k is a column and the cell
\* is NaN, req_df.loc[_, k] = d.get(k, r.get(k))
FillRow(r, d, columns) ==
    [k \in DOMAIN r |->
        IF k \in ReqFields /\ k \in columns /\ ~IsSome(r[k])
        THEN IF k \in DOMAIN d THEN d[k] ELSE r[k]
        ELSE r[k]]

\* The loop over the rows from row i on, the backend answering answers[j]
\* for row j; an exception of the extractor leaves the loop and the handler.
RECURSIVE ExtractRows(_, _, _, _, _)
ExtractRows(rows, columns, answers, i, calls) ==
    IF i > Len(rows)
    THEN Outcome(rows, None, calls)
    ELSE Once(extract_requirement_text_to_json(Some(CellText(rows[i])), answers[i]),
              LAMBDA o :
                 IF IsSome(o.exc)
                 THEN Outcome(rows, o.exc, calls + o.calls)
                 ELSE ExtractRows([rows EXCEPT ![i] = FillRow(rows[i], o.ret, columns)],
                                  columns, answers, i + 1, calls + o.calls))

\* The handler on the table df: without a free_text column it only warns.
ExtractButtonHandler(df, answers) ==
    IF "free_text" \in df.columns
    THEN ExtractRows(df.rows, df.columns, answers, 1, 0)
    ELSE Outcome(df.rows, None, 0)
----------------------------------------------------------------------------
(* app/main.py: the "Apply chat filters" button *)

\* A row of st.session_state.out: component, status and, for a pass or a
\* fail, measured_norm and unit; a key the row's dict lacks is NaN (None).
\* pd.DataFrame(results) has a column for every key of some row.
ResultRow(component, status, measured_norm, unit) ==
    [component |-> component, status |-> status,
     measured_norm |-> measured_norm, unit |-> unit]

\* The body of the conversion loop for one row: normalize(row["measured_norm"],
\* row["unit"], target_unit) does not raise and gives at least min_val.
ConvertedAtLeast(row, target_unit, min_val) ==
    /\ IsSome(row.unit)
    /\ ~NormalizeRaises(Get(row.unit), Some(target_unit))
    /\ RatDiff(Normalize(Get(row.measured_norm), Get(row.unit), Some(target_unit)),
               min_val) >= 0

\* The filters applied to the rows of out.  f.get(k) is falsy for None, for
\* the number 0 and for an empty str.  The component is matched as a
\* substring (the names hold no regex operators).  The columns measured_norm
\* and unit exist together, when some row is a pass or a fail.
ApplyFilters(rows, f) ==
    LET anyColumn == Len(rows) > 0
        measuredColumn == \E i \in 1..Len(rows) : IsSome(rows[i].measured_norm)
        byComponent == IsSome(f.component) /\ Get(f.component) # <<>>
        byStatus == IsSome(f.status) /\ Get(f.status) # ""
        byUnit == IsSome(f.unit) /\ Get(f.unit) # ""
        byMin == IsSome(f.min_value) /\ Get(f.min_value)[1] # 0
        vf1 == IF byComponent
               THEN SelectSeq(rows, LAMBDA r :
                        /\ IsSome(r.component)
                        /\ Contains(Lower(Get(r.component)), Lower(Get(f.component))))
               ELSE rows
        vf2 == IF byStatus
               THEN SelectSeq(vf1, LAMBDA r : r.status = Get(f.status))
               ELSE vf1
        \* unit alone
        vf3 == IF byUnit /\ ~byMin /\ measuredColumn
               THEN SelectSeq(vf2, LAMBDA r : r.unit = f.unit)
               ELSE vf2
        AtLeast(r) == /\ IsSome(r.measured_norm)
                      /\ RatDiff(Get(r.measured_norm), Get(f.min_value)) >= 0
        vf4 == IF ~byMin \/ ~measuredColumn THEN vf3
               ELSE IF ~byUnit THEN SelectSeq(vf3, AtLeast)
               ELSE IF \E i \in 1..Len(vf3) : vf3[i].unit = f.unit
               \* mask.any()
               THEN SelectSeq(vf3, LAMBDA r : r.unit = f.unit /\ AtLeast(r))
               ELSE SelectSeq(vf3, LAMBDA r :
                        ConvertedAtLeast(r, Get(f.unit), Get(f.min_value)))
    IN  IF (byComponent \/ byStatus) /\ ~anyColumn
        \* vf["component"], vf["status"] of a frame without columns
        THEN Outcome(Nothing, Some("KeyError"), 0)
        ELSE Outcome(Some(vf4), None, 0)
----------------------------------------------------------------------------
(* Inputs *)

\* Magnitudes run over 0..MaxNum, in units and in thousands.
MaxNum == 2

Numbers == {<<n * s, 1>> : n \in 0..MaxNum, s \in {1, KiloFactor}}

Option(S) == {None} \cup {Some(v) : v \in S}

Comparators == Option(OPS_KEYS \cup {"?"})
UnitStrings == KnownUnits \cup {"furlongs_per_bogon"}

Requirements ==
    [comparator : Comparators, value : Option(Numbers), unit : Option(UnitStrings)]

TestMeasurements == [measured_value : Numbers, unit : UnitStrings]

\* A text is at most MaxLexemes lexemes, written one after the other.
MaxLexemes == 3

RECURSIVE Concat(_)
Concat(ls) == IF ls = <<>> THEN <<>> ELSE Head(ls) \o Concat(Tail(ls))

TextsOver(alphabet, n) ==
    {Concat(ls) : ls \in UNION {[1..k -> alphabet] : k \in 0..n}}

\* The lexemes of requirement texts: every cue of the comparator rules, a
\* number and a unit.
CueLexemes ==
    { <<" ">>, <<"=">>, <<">">>, <<"<">>, <<"GE">>, <<"LE">>,
      <<"m","i","n">>, <<"m","a","x">>, <<"e","q","u","a","l","s">>,
      <<"a","t"," ","l","e","a","s","t">>, <<"n","o","t"," ","e","x","c","e","e","d">>,
      <<"m","o","r","e"," ","t","h","a","n">>, <<"l","e","s","s"," ","t","h","a","n">>,
      <<"5">>, <<"k","N">> }

CueTexts == TextsOver(CueLexemes, MaxLexemes)

\* The lexemes of the texts given to extract_requirement_text_to_json.
ExtractLexemes == { <<" ">>, <<"=">>, <<"5">>, <<"k","N">>, <<"m","i","n">>, <<"d","o","o","r">> }

ExtractTexts == TextsOver(ExtractLexemes, MaxLexemes)

\* The lexemes of queries.
QueryLexemes ==
    { <<" ">>, <<"s","h","o","w">>, <<"f","a","i","l","e","d">>, <<"d","o","o","r">>, <<"t","e","s","t","s">>, <<">">>, <<"g","r","e","a","t","e","r"," ","t","h","a","n">>, <<"a","b","o","v","e">>,
      <<"5">>, <<"n">>, <<"k","n">>, <<"m","m">>, <<"u","n","i","t">>, <<"w","i","t","h">>, <<"o","r"," ","m","o","r","e">> }

QueryTexts == TextsOver(QueryLexemes, MaxLexemes)

\* The lexemes of the queries given to parse_query_to_filters.
ParseLexemes == { <<" ">>, <<"f","a","i","l","e","d">>, <<"d","o","o","r">>, <<">">>, <<"5">>, <<"n">> }

ParseTexts == TextsOver(ParseLexemes, MaxLexemes)

\* The answers of the backend that are no JSON object.
BadAnswers == {Answer("raise", <<>>), Answer("none", <<>>), Answer("text", <<>>)}

\* A JSON object over the six fields has at most MaxNulls null values.
MaxNulls == 1

\* The value the backend gives each field, when it gives one.
LlmReqValue ==
    [metric |-> <<"g","a","p">>, comparator |-> "LE", value |-> <<2, 1>>,
     unit |-> <<"m","m">>, component |-> <<"h","o","o","d">>, condition |-> <<"a","m","b","i","e","n","t">>]

\* The JSON objects of the backend for a requirement text: the six fields,
\* some of them null; one with a string for the number; one without a key.
ReqJsonObjects ==
    {[k \in ReqFields |-> IF k \in S THEN JNull ELSE JOk(LlmReqValue[k])] :
        S \in {X \in SUBSET ReqFields : Cardinality(X) <= MaxNulls}}
    \cup {[k \in ReqFields |-> IF k = "value" THEN JBad ELSE JOk(LlmReqValue[k])]}
    \cup {[k \in ReqFields \ {"condition"} |-> JOk(LlmReqValue[k])]}

ReqAnswers == BadAnswers \cup {Answer("json", d) : d \in ReqJsonObjects}

\* The JSON objects of the backend for a query.
FilterJsonObjects ==
    { [status |-> JOk("fail")],
      [status |-> JOk("fail"), min_value |-> JOk(<<5, 1>>), unit |-> JOk("N")],
      [component |-> JOk(<<"d","o","o","r">>), unit |-> JNull],
      [min_value |-> JBad] }

FilterAnswers == BadAnswers \cup {Answer("json", d) : d \in FilterJsonObjects}

ExplainAnswers == BadAnswers

\* The facts main.py builds from a validate_row result.
FactsOf(r) ==
    [status |-> r.status, measured_norm |-> r.measured_norm,
     target |-> r.target, unit |-> r.unit]

FactsSet ==
    {FactsOf(r) : r \in {x \in {validate_row(q, t) : q \in Requirements,
                                                       t \in TestMeasurements} :
                             x.status # "raised"}}

NoReq == [comparator |-> None, value |-> None, unit |-> None]
NoTest == [measured_value |-> <<0, 1>>, unit |-> "N"]
NoResult == Result("none", None, None, None, None, None)
NoFacts == FactsOf(NoResult)

----------------------------------------------------------------------------
(* Actions *)

\* The state before any call: no arguments, nothing returned.
Idle ==
    /\ done = FALSE
    /\ res = NoResult
    /\ ret = Nothing
    /\ exc = None
    /\ chatCalls = 0
    /\ csv = NoTable
    /\ req_df = NoTable
    /\ out = None
    /\ vf = None

InitValidate ==
    /\ Idle
    /\ available = FALSE
    /\ fn = "validate_row"
    /\ req \in Requirements
    /\ test \in TestMeasurements
    /\ text = None
    /\ llm = NoAnswer
    /\ facts = NoFacts

InitRegexReq ==
    /\ Idle
    /\ available = FALSE
    /\ fn = "_regex_req"
    /\ req = NoReq
    /\ test = NoTest
    /\ text \in {Some(t) : t \in CueTexts}
    /\ llm = NoAnswer
    /\ facts = NoFacts

InitRegexFilters ==
    /\ Idle
    /\ available = FALSE
    /\ fn = "_regex_filters"
    /\ req = NoReq
    /\ test = NoTest
    /\ text \in {Some(t) : t \in QueryTexts}
    /\ llm = NoAnswer
    /\ facts = NoFacts

\* One invocation of one of the three backend-assisted functions.
InitLlm ==
    /\ Idle
    /\ available \in BOOLEAN
    /\ req = NoReq
    /\ test = NoTest
    /\ \/ /\ fn = "extract_requirement_text_to_json"
          /\ text \in Option(ExtractTexts)
          /\ llm \in (IF available THEN ReqAnswers ELSE {NoAnswer})
          /\ facts = NoFacts
       \/ /\ fn = "explain_from_facts"
          /\ text = None
          /\ llm \in (IF available THEN ExplainAnswers \cup {Answer("text", <<>>)}
                                   ELSE {NoAnswer})
          /\ facts \in FactsSet
       \/ /\ fn = "parse_query_to_filters"
          /\ text \in {Some(t) : t \in ParseTexts}
          /\ llm \in (IF available THEN FilterAnswers ELSE {NoAnswer})
          /\ facts = NoFacts

\* What a text function did becomes the state.
Return(o) ==
    /\ done' = TRUE
    /\ ret' = o.ret
    /\ exc' = o.exc
    /\ chatCalls' = o.calls
    /\ UNCHANGED <<available, fn, req, test, res, text, llm, facts, csv, req_df, out, vf>>

ValidateRow ==
    /\ fn = "validate_row" /\ ~done
    /\ done' = TRUE
    /\ res' = validate_row(req, test)
    /\ UNCHANGED <<available, fn, req, test, text, llm, facts, ret, exc, chatCalls,
                   csv, req_df, out, vf>>

RegexReq ==
    /\ fn = "_regex_req" /\ ~done
    /\ Return(Outcome(_regex_req(Get(text)), None, 0))

RegexFilters ==
    /\ fn = "_regex_filters" /\ ~done
    /\ Return(Outcome(_regex_filters(Get(text)), None, 0))

ExtractRequirement ==
    /\ fn = "extract_requirement_text_to_json" /\ ~done
    /\ Return(extract_requirement_text_to_json(text, llm))

ExplainFromFacts ==
    /\ fn = "explain_from_facts" /\ ~done
    /\ Return(explain_from_facts(facts, llm))

ParseQuery ==
    /\ fn = "parse_query_to_filters" /\ ~done
    /\ Return(parse_query_to_filters(text, llm))

NextLlm == ExtractRequirement \/ ExplainFromFacts \/ ParseQuery

SpecValidate == InitValidate /\ [][ValidateRow]_vars

SpecRegexReq == InitRegexReq /\ [][RegexReq]_vars

SpecRegexFilters == InitRegexFilters /\ [][RegexFilters]_vars

SpecLlm == InitLlm /\ [][NextLlm]_vars


----------------------------------------------------------------------------
(* The requirements table: inputs, and the button *)

\* A table has at most MaxRows rows.
MaxRows == 2

\* What a CSV holds in a field that it fills.
CsvValue ==
    [metric |-> <<"r","i","g","i","d","i","t","y">>, comparator |-> "GE", value |-> <<9, 1>>,
     unit |-> <<"k","N">>, component |-> <<"r","o","o","f">>, condition |-> <<"c","o","l","d">>]

\* The free_text cells: NaN, a blank, a requirement the regex reads.
FreeTexts == {None, Some(<<" ">>), Some(<<"G","E","5","k","N">>)}

\* The column sets: all, one field column missing, no free_text.
ColumnSets ==
    { ReqFields \cup {"free_text"},
      (ReqFields \ {"condition"}) \cup {"free_text"},
      ReqFields }

\* The fields a row of the CSV fills: none, all, or value and unit.
FilledFields == { {}, ReqFields, {"value", "unit"} }

RowsOver(columns) ==
    {[k \in columns |->
         IF k = "free_text" THEN t
         ELSE IF k \in S THEN Some(CsvValue[k]) ELSE None] :
        S \in FilledFields, t \in FreeTexts}

TablesOver(columns) ==
    UNION {{Table(columns, rows) : rows \in [1..n -> RowsOver(columns)]} :
              n \in 0..MaxRows}

Tables == UNION {TablesOver(columns) : columns \in ColumnSets}

\* What the backend answers for one row when asked: a failure, or an object
\* with all six fields.
TableAnswers ==
    {Answer("raise", <<>>),
     Answer("json", [k \in ReqFields |-> JOk(LlmReqValue[k])])}

\* The page has loaded the CSV and shows it.
InitTable ==
    /\ available \in BOOLEAN
    /\ fn = "extract_button"
    /\ done = FALSE
    /\ req = NoReq
    /\ test = NoTest
    /\ res = NoResult
    /\ text = None
    /\ llm = NoAnswer
    /\ facts = NoFacts
    /\ ret = Nothing
    /\ exc = None
    /\ chatCalls = 0
    /\ csv \in Tables
    /\ req_df = csv
    /\ out = None
    /\ vf = None

\* One press of the button.  The press reruns the script, which reads the
\* CSV into req_df again before the handler runs; the CSV itself is never
\* written.  The button can be pressed again.
ExtractButton ==
    /\ fn = "extract_button"
    /\ \E answers \in [1..Len(csv.rows) ->
                          IF available THEN TableAnswers ELSE {NoAnswer}] :
          LET o == ExtractButtonHandler(csv, answers) IN
             /\ req_df' = Table(csv.columns, o.ret)
             /\ exc' = o.exc
             /\ chatCalls' = o.calls
    /\ done' = TRUE
    /\ UNCHANGED <<available, fn, req, test, res, text, llm, facts, ret, csv, out, vf>>

SpecTable == InitTable /\ [][ExtractButton]_vars

----------------------------------------------------------------------------
(* The validation results and the chat filter button *)

\* The results hold at most MaxResults rows.
MaxResults == 2

\* The rows validation produces: an unknown row, and passes and fails with a
\* measurement in the requirement's unit.
ResultRows ==
    {ResultRow(None, "unknown", None, None)}
    \cup {ResultRow(Some(<<"d","o","o","r">>), s, Some(m), Some(u)) :
             s \in {"pass", "fail"}, m \in {<<1, 1>>, <<2 * KiloFactor, 1>>},
             u \in KnownUnits}

\* The queries typed, and what the backend answers when asked.
ChatQueries == {<<">","5","n">>, <<"0","k","n">>, <<"f","a","i","l","e","d">>, <<"d","o","o","r">>}

ChatAnswers ==
    {Answer("raise", <<>>)}
    \cup {Answer("json", d) : d \in
            { [min_value |-> JOk(<<5, 1>>), unit |-> JOk("mm")],
              [min_value |-> JOk(<<0, 1>>), unit |-> JOk("N")],
              [unit |-> JOk("kN")],
              [status |-> JOk("pass"), min_value |-> JOk(<<2, 1>>),
               unit |-> JOk("furlongs_per_bogon")] }}

\* The page before the button is pressed: validation has run, or not.
InitChat ==
    /\ available \in BOOLEAN
    /\ done = FALSE
    /\ res = NoResult
    /\ ret = Nothing
    /\ exc = None
    /\ chatCalls = 0
    /\ csv = NoTable
    /\ req_df = NoTable
    /\ fn = "apply_chat_filters"
    /\ req = NoReq
    /\ test = NoTest
    /\ text \in {Some(q) : q \in ChatQueries}
    /\ llm \in (IF available THEN ChatAnswers ELSE {NoAnswer})
    /\ facts = NoFacts
    /\ out \in {None} \cup {Some(rows) : rows \in
                   UNION {[1..n -> ResultRows] : n \in 0..MaxResults}}
    /\ vf = None

\* One press of "Apply chat filters": without results a warning; else the
\* query is parsed and the filters are applied to a copy of out.
ApplyChatFilters ==
    /\ fn = "apply_chat_filters" /\ ~done
    /\ IF IsSome(out)
       THEN LET p == parse_query_to_filters(text, llm)
                a == ApplyFilters(Get(out), p.ret)
            IN  /\ ret' = p.ret
                /\ vf' = a.ret
                /\ exc' = a.exc
                /\ chatCalls' = p.calls
       ELSE UNCHANGED <<ret, vf, exc, chatCalls>>
    /\ done' = TRUE
    /\ UNCHANGED <<available, fn, req, test, res, text, llm, facts, csv, req_df, out>>

SpecChat == InitChat /\ [][ApplyChatFilters]_vars
----------------------------------------------------------------------------
(* Claims about validate_row, under SpecValidate *)

Returned == fn = "validate_row" /\ done

\* The comparator symbols the specification recognizes (GE and LE in both
\* spellings).
RecognizedSymbols == {">", "GE", ">=", "=", "LE", "<=", "<"}
Recognized(c) == IsSome(c) /\ Get(c) \in RecognizedSymbols

\* C1: validate_row answers pass or fail only if the test's unit converted
\* into the requirement's unit and the comparator is a recognized symbol; a
\* failed conversion gives unknown / unit_conversion_failed whatever the
\* comparator is; a successful conversion with a missing or unrecognized
\* comparator gives unknown / invalid_comparator.
C1_StatusNeedsNormalization ==
    Returned =>
        LET failed == NormalizeRaises(test.unit, req.unit) IN
        /\ res.status \in {"pass", "fail"} => ~failed /\ Recognized(req.comparator)
        /\ failed =>
              res.status = "unknown" /\ res.reason = Some("unit_conversion_failed")
        /\ ~failed /\ ~Recognized(req.comparator) =>
              res.status = "unknown" /\ res.reason = Some("invalid_comparator")

\* C1's case: the conversion fails and the comparator is unrecognized too.
C1_Witness ==
    /\ Returned
    /\ test.unit = "kN" /\ req.unit = Some("mm")
    /\ req.comparator = Some("?")
    /\ res.reason = Some("unit_conversion_failed")

\* v of unit u, in the base unit of u's dimension
InBase(v, u) == <<v[1] * UnitFactor(u), v[2]>>

\* C2: a pass/fail result carries measured_norm, the measured value expressed
\* in the requirement's unit, target = the requirement's value, unit = the
\* requirement's unit, and no reason; an unknown result carries a reason and
\* none of measured_norm, target, unit.
C2_ResultFields ==
    Returned =>
        /\ res.status \in {"pass", "fail"} =>
              /\ IsSome(res.measured_norm)
              /\ res.unit = req.unit
              /\ RatDiff(InBase(Get(res.measured_norm), Get(res.unit)),
                         InBase(test.measured_value, test.unit)) = 0
              /\ res.target = req.value
              /\ res.reason = None
        /\ res.status = "unknown" =>
              /\ IsSome(res.reason)
              /\ res.measured_norm = None /\ res.target = None /\ res.unit = None

\* C2's case: a measurement in N judged against a requirement in kN.
C2_Witness ==
    /\ Returned
    /\ res.status = "pass"
    /\ test.unit = "N" /\ req.unit = Some("kN")
    /\ test.measured_value = <<2000, 1>>
    /\ res.measured_norm = Some(<<2000, 1000>>)

\* Each of comparator, value, unit is a valid value or null.
DegradedReq(r) ==
    /\ r.comparator \in Option(RecognizedSymbols)
    /\ r.unit \in Option(KnownUnits)

\* C3: for a requirement whose comparator, value and unit are each valid or
\* null, validate_row returns a result (pass, fail or unknown) and raises
\* nothing.
C3_NeverRaises ==
    Returned /\ DegradedReq(req) => res.status \in {"pass", "fail", "unknown"}

----------------------------------------------------------------------------
(* Claims about the backend-assisted functions, under SpecLlm *)

Extracted == fn = "extract_requirement_text_to_json" /\ done
Explained == fn = "explain_from_facts" /\ done
Parsed == fn = "parse_query_to_filters" /\ done

\* text or ""
TextOrEmpty == IF IsSome(text) THEN Get(text) ELSE <<>>

\* The backend was asked and its path failed: chat raised, the answer holds
\* no JSON object, or the object does not validate.
ExtractChatFailed ==
    Extracted /\ available /\ chatCalls >= 1 /\ ExtractTryRaises(llm)
ParseChatFailed ==
    Parsed /\ available /\ chatCalls >= 1 /\ ParseTryRaises(llm)

\* C4 as stated: when the backend is available and its call fails,
\* extract_requirement_text_to_json(text), text non-empty, returns
\* _regex_req(text) and parse_query_to_filters(q) returns _regex_filters(q),
\* for the same text and q, and no exception reaches the caller.
C4_FallbackOnSameInput ==
    /\ ExtractChatFailed /\ TextOrEmpty # <<>> =>
          exc = None /\ ret = _regex_req(Get(text))
    /\ ParseChatFailed => exc = None /\ ret = _regex_filters(Get(text))

\* C4 amended: extract_requirement_text_to_json(text) returns
\* _regex_req(text.strip()), the regex path on the text without its leading
\* and trailing whitespace; the rest as stated.
C4_FallbackOnStrippedText ==
    /\ ExtractChatFailed /\ TextOrEmpty # <<>> =>
          exc = None /\ ret = _regex_req(Strip(Get(text)))
    /\ ParseChatFailed => exc = None /\ ret = _regex_filters(Get(text))

\* C4's case: the chat raises on " =5", and the fallback reads "=5", whose
\* leading "=" gives the comparator.
C4_Witness ==
    /\ ExtractChatFailed
    /\ llm.kind = "raise"
    /\ text = Some(<<" ","=","5">>)
    /\ exc = None
    /\ ret.comparator = Some("=")

\* The backend's JSON object has the six fields, each null or well typed,
\* some null and some not.
PartlyNullObject(l) ==
    /\ l.kind = "json"
    /\ DOMAIN l.data = ReqFields
    /\ \A k \in ReqFields : Tag(l.data[k]) \in {"null", "ok"}
    /\ \E k \in ReqFields : Tag(l.data[k]) = "null"
    /\ \E k \in ReqFields : Tag(l.data[k]) = "ok"

\* C5: when the backend answers a JSON object over the six fields, some null
\* and the others well typed, extract_requirement_text_to_json returns the
\* backend's non-null fields (and not the regex fallback's result).
C5_BackendFieldsReturned ==
    Extracted /\ available /\ chatCalls >= 1 /\ PartlyNullObject(llm) =>
        /\ exc = None
        /\ ret = [k \in {x \in ReqFields : Tag(llm.data[x]) = "ok"} |->
                     Some(llm.data[k][2])]

\* C6: for a text that is null, empty or whitespace-only,
\* extract_requirement_text_to_json returns the six fields, all null, raises
\* nothing and does not call the backend.
C6_BlankTextGivesAllNull ==
    Extracted /\ Strip(TextOrEmpty) = <<>> =>
        /\ exc = None
        /\ chatCalls = 0
        /\ ret = [k \in ReqFields |-> None]

\* C7: an invocation of extract_requirement_text_to_json, explain_from_facts
\* or parse_query_to_filters calls the backend chat zero times when the
\* backend is unavailable and at most once when it is available, also when
\* that call fails.
C7_AtMostOneChat ==
    Extracted \/ Explained \/ Parsed =>
        /\ ~available => chatCalls = 0
        /\ available => chatCalls <= 1

\* C7's case: the one chat failed and the fallback result was returned.
C7_Witness ==
    /\ ExtractChatFailed
    /\ llm.kind = "raise"
    /\ chatCalls = 1
    /\ exc = None
    /\ ret = _regex_req(Strip(Get(text)))

----------------------------------------------------------------------------
(* Claims about _regex_req, under SpecRegexReq *)

\* The cues of the comparator rules as the specification lists them, GE and
\* LE read in both spellings.
ClaimRule1(l) ==
    \/ Contains(l, <<"GE">>) \/ Contains(l, <<">","=">>)
    \/ Contains(l, <<"a","t"," ","l","e","a","s","t">>) \/ Contains(l, <<"m","i","n","i","m","u","m">>) \/ Contains(l, <<"m","i","n">>)
ClaimRule2(l) ==
    \/ Contains(l, <<"LE">>) \/ Contains(l, <<"<","=">>)
    \/ Contains(l, <<"n","o","t"," ","e","x","c","e","e","d">>) \/ Contains(l, <<"m","a","x","i","m","u","m">>) \/ Contains(l, <<"m","a","x">>)
ClaimRule3(l) == Contains(l, <<"e","q","u","a","l","s">>) \/ LitAt(l, 1, <<"=">>)
ClaimRule4(l) == Contains(l, <<"m","o","r","e"," ","t","h","a","n">>) \/ Contains(l, <<">">>)
ClaimRule5(l) == Contains(l, <<"l","e","s","s"," ","t","h","a","n">>) \/ Contains(l, <<"<">>)

ClaimComparator(l) ==
    IF ClaimRule1(l) THEN Some("GE")
    ELSE IF ClaimRule2(l) THEN Some("LE")
    ELSE IF ClaimRule3(l) THEN Some("=")
    ELSE IF ClaimRule4(l) THEN Some(">")
    ELSE IF ClaimRule5(l) THEN Some("<")
    ELSE None

\* C9: the comparator of _regex_req is that of the first rule, in the order
\* GE, LE, =, >, <, one of whose cues the text holds, and null if it holds
\* none; a leading "=" is a cue of the third rule.
C9_FirstListedCueDecides ==
    fn = "_regex_req" /\ done => ret.comparator = ClaimComparator(Lower(Get(text)))

----------------------------------------------------------------------------
(* Claims about _regex_filters, under SpecRegexFilters *)

\* No unit-only pattern and no <number> <unit> pair matches, a threshold
\* cue does.
ThresholdOnly(ql) ==
    /\ ~IsSome(FilterUnitOnly(ql))
    /\ ~IsSome(FilterNumUnit(ql))
    /\ IsSome(FilterThreshold(ql))

\* The unit of the unit token the query holds, kN before N before mm.
ClaimInferredUnit(ql) ==
    IF ContainsWord(ql, <<"k","n">>) THEN Some("kN")
    ELSE IF ContainsWord(ql, <<"n">>) THEN Some("N")
    ELSE IF ContainsWord(ql, <<"m","m">>) THEN Some("mm")
    ELSE None

\* C10: on the threshold-only path min_value is the threshold of the cue and
\* the unit is that of a unit token of the query, kN before N before mm, and
\* null if the query holds no unit token.
C10_UnitFromUnitToken ==
    fn = "_regex_filters" /\ done /\ ThresholdOnly(Lower(Get(text))) =>
        /\ ret.min_value = FilterThreshold(Lower(Get(text)))
        /\ ret.unit = ClaimInferredUnit(Lower(Get(text)))

----------------------------------------------------------------------------
(* Claims about the extraction step over the table, under SpecTable *)

ButtonRan == fn = "extract_button" /\ done

FieldCells(t) ==
    {<<i, k>> : i \in 1..Len(t.rows), k \in ReqFields \cap t.columns}

\* C8 amended: the extraction step is fill-only-if-missing.  For every row
\* and each of the six fields, a field present before the step has the same
\* value after it, whatever the extractor returns for the row's free text
\* and also when the extractor raises; columns, rows and free_text cells
\* stay as they are; so the step leaves a table whose fields are all
\* populated unchanged.  (A second run is not claimed to change nothing.)
C8_PresentFieldsKept ==
    ButtonRan =>
        /\ req_df.columns = csv.columns
        /\ Len(req_df.rows) = Len(csv.rows)
        /\ \A c \in FieldCells(csv) :
              IsSome(csv.rows[c[1]][c[2]]) =>
                  req_df.rows[c[1]][c[2]] = csv.rows[c[1]][c[2]]
        /\ \A i \in 1..Len(csv.rows) :
              "free_text" \in csv.columns =>
                  req_df.rows[i]["free_text"] = csv.rows[i]["free_text"]
        /\ (\A c \in FieldCells(csv) : IsSome(csv.rows[c[1]][c[2]])) =>
              req_df = csv

\* C8's case: a row with value filled and metric missing; the backend gave
\* both, the step wrote the metric and kept the value.
C8_Witness ==
    /\ ButtonRan /\ exc = None
    /\ \E i \in 1..Len(csv.rows) :
          /\ csv.rows[i]["value"] = Some(CsvValue["value"])
          /\ csv.rows[i]["metric"] = None
          /\ req_df.rows[i]["metric"] = Some(LlmReqValue["metric"])
          /\ req_df.rows[i]["value"] = Some(CsvValue["value"])

\* C8 as stated: fill-only-if-missing as above, and running the step a
\* second time leaves the table unchanged.
C8_SecondRunChangesNothing ==
    /\ []C8_PresentFieldsKept
    /\ [][ButtonRan /\ exc = None => req_df' = req_df]_vars
----------------------------------------------------------------------------
(* Claims about the chat filter application, under SpecChat *)

ChatApplied == fn = "apply_chat_filters" /\ done /\ IsSome(out)

\* The filter has min_value and unit, and nothing else.
MinAndUnitOnly(f) ==
    /\ IsSome(f.min_value) /\ IsSome(f.unit)
    /\ ~IsSome(f.component) /\ ~IsSome(f.status)

\* The rows the statement expects: with a row of the filter's unit, the rows
\* of that unit at or above min_value; else the rows that convert to the
\* unit at or above min_value.
ClaimedRows(rows, f) ==
    IF \E i \in 1..Len(rows) : rows[i].unit = f.unit
    THEN SelectSeq(rows, LAMBDA r :
            /\ r.unit = f.unit
            /\ RatDiff(Get(r.measured_norm), Get(f.min_value)) >= 0)
    ELSE SelectSeq(rows, LAMBDA r :
            ConvertedAtLeast(r, Get(f.unit), Get(f.min_value)))

\* C11: applying a filter with min_value (any number, 0 included) and unit
\* never raises and shows, if some row has the filter's unit, exactly the
\* rows of that unit with measured_norm >= min_value, and otherwise exactly
\* the rows whose measured_norm converts into the unit to a value >=
\* min_value.
C11_MinValueWithUnit ==
    ChatApplied /\ MinAndUnitOnly(ret) =>
        exc = None /\ vf = Some(ClaimedRows(Get(out), ret))

\* The same without the two cases in which the code departs from it: a
\* min_value of 0, and results without a pass or a fail.
C11_NonZeroWithMeasurements ==
    /\ ChatApplied /\ MinAndUnitOnly(ret)
    /\ Get(ret.min_value)[1] # 0
    /\ \E i \in 1..Len(Get(out)) : IsSome(Get(out)[i].measured_norm)
    => exc = None /\ vf = Some(ClaimedRows(Get(out), ret))
====
